---- MODULE Spec2Model ----
(***************************************************************************)
(* A model of shend/simplesip: the message helpers (message/message.go,    *)
(* response.go), the UDP transport (transport/conn.go), the transport      *)
(* layer (transport/layer.go) and the server's dispatch pipeline           *)
(* (server.go).                                                            *)
(*                                                                         *)
(* The SIP codec (github.com/jart/gosip) is outside the repository: a      *)
(* parsed message is a record of the fields the repository reads, and the  *)
(* codec's results (parse outcome, serialized size, generated tag) are     *)
(* inputs.  A Go panic (nil dereference) is an outcome of its own: it ends *)
(* the process.                                                            *)
(***************************************************************************)
EXTENDS Integers, Sequences, FiniteSets, TLC

VARIABLES
    build,               \* which of the two NewResponseFromRequest definitions is compiled
    requestHandlers,     \* Server.requestHandlers: method -> handler
    requestMiddlewares,  \* Server.requestMiddlewares
    handlers,            \* Layer.handlers
    listenPorts,         \* Layer.listenPorts: network -> list of ports
    udpConn,             \* UDPTransport.conn (0: nil)
    pool,                \* UDPTransport.pool: local address -> connection
    pc,                  \* per socket: where its receive loop is
    crashed,             \* an unrecovered panic ended the process
    sockOpen,            \* per socket: the operating system's socket is open
    served,              \* history: the <<network, port>> pairs handed to addListenPort
    dropped,             \* history, per socket: the datagram read last was dropped
    last                 \* report of the most recent operation

vars == <<build, requestHandlers, requestMiddlewares, handlers, listenPorts,
          udpConn, pool, pc, crashed, sockOpen, served, dropped, last>>

-----------------------------------------------------------------------------
(* Bounds of the model. *)

\* longest parameter list of a To or From header
MaxParams == 2
\* longest raw (non-SIP) datagram, in bytes
MaxRawLen == 5
\* most entries of Layer.handlers (calls of Server.ListenAndServe/ServeUDP/ServeTCP)
MaxHandlers == 2
\* most entries of Server.requestMiddlewares
MaxMiddlewares == 2

-----------------------------------------------------------------------------
(* Messages: message.Message around a sip.Msg. *)

RECURSIVE SeqsUpTo(_, _)
SeqsUpTo(S, n) ==
    IF n = 0 THEN {<<>>}
    ELSE LET shorter == SeqsUpTo(S, n - 1)
         IN  shorter \cup {Append(s, x) : s \in {t \in shorter : Len(t) = n - 1}, x \in S}

MinOf(S) == CHOOSE x \in S : \A y \in S : x <= y

\* header parameters (sip.Param): a linked list, here a sequence; nil is <<>>
TagT1 == [name |-> "tag", value |-> "T1"]
TagEmpty == [name |-> "tag", value |-> ""]
ParamLr == [name |-> "lr", value |-> ""]
TagF1 == [name |-> "tag", value |-> "F1"]
ParamUser == [name |-> "user", value |-> "phone"]

\* a header (sip.Addr) that is present, and the nil header
Addr(params) == [present |-> TRUE, param |-> params]
NilAddr == [present |-> FALSE, param |-> <<>>]

\* sip.Param.Get at its call sites: the index of the first parameter of that
\* name, 0 for the nil result
ParamGet(params, name) ==
    LET idx == {i \in 1..Len(params) : params[i].name = name}
    IN  IF idx = {} THEN 0 ELSE MinOf(idx)

\* sip.Msg.IsResponse at its call sites
IsResponse(msg) == msg.status > 0

\* the serialized size sip.Msg.Append produces
SerializedLen(msg) == msg.hdr + msg.payload

Val(v) == [panic |-> FALSE, val |-> v]
Panic == [panic |-> TRUE, val |-> ""]

GetCallID(m) == m.msg.callID

GetToTag(m) ==
    IF ~m.msg.to.present THEN Panic
    ELSE IF m.msg.to.param = <<>> THEN Val("")
    ELSE IF ParamGet(m.msg.to.param, "tag") = 0 THEN Panic
    ELSE Val(m.msg.to.param[ParamGet(m.msg.to.param, "tag")].value)

GetFromTag(m) ==
    IF ~m.msg.from.present THEN Panic
    ELSE IF m.msg.from.param = <<>> THEN Val("")
    ELSE IF ParamGet(m.msg.from.param, "tag") = 0 THEN Panic
    ELSE Val(m.msg.from.param[ParamGet(m.msg.from.param, "tag")].value)

\* strings.Join: the parts with the separator between them, as a sequence
RECURSIVE Join(_, _)
Join(parts, sep) ==
    IF Len(parts) <= 1 THEN parts
    ELSE <<Head(parts), sep>> \o Join(Tail(parts), sep)

MakeDialogID(callID, innerID, externalID) ==
    Join(<<callID, innerID, externalID>>, "__")

DialogErr(e) == [panic |-> FALSE, err |-> e, id |-> <<>>]
DialogPanic == [panic |-> TRUE, err |-> "", id |-> <<>>]

MakeDialogIDFromMessage(m) ==
    IF GetCallID(m) = "" THEN DialogErr("missing Call-ID header")
    ELSE IF GetToTag(m).panic THEN DialogPanic
    ELSE IF GetToTag(m).val = "" THEN DialogErr("missing tag param in To header")
    ELSE IF GetFromTag(m).panic THEN DialogPanic
    ELSE IF GetFromTag(m).val = "" THEN DialogErr("missing tag param in From header")
    ELSE [panic |-> FALSE, err |-> "",
          id |-> MakeDialogID(GetCallID(m), GetToTag(m).val, GetFromTag(m).val)]

\* Message.Clone: a copy of the message, the strings carried over
Clone(m) ==
    [msg |-> m.msg, transport |-> m.transport, source |-> m.source,
     destination |-> m.destination, respond |-> m.respond]

\* sip.Addr.Tag at its call site: a generated tag is put in front of the
\* parameters unless one of them is a tag
AddrTag(addr, gen) ==
    IF ParamGet(addr.param, "tag") # 0 THEN addr
    ELSE [addr EXCEPT !.param = <<[name |-> "tag", value |-> gen]>> \o addr.param]

EnvVal(e) == [panic |-> FALSE, env |-> e]
EnvPanic(e) == [panic |-> TRUE, env |-> e]

\* response.go: clone, status and phrase, swap of the two addresses
NewResponseFromRequest_response(req, status, phrase) ==
    LET res == Clone(req)
    IN  EnvVal([res EXCEPT !.msg.status = status, !.msg.phrase = phrase,
                           !.source = res.destination, !.destination = res.source])

\* the later definition: as above, and a To-tag when the request has none
NewResponseFromRequest_tagging(req, status, phrase, gen) ==
    LET res == Clone(req)
        tagged == IF GetToTag(req).panic \/ GetToTag(req).val # "" THEN res
                  ELSE [res EXCEPT !.msg.to = AddrTag(res.msg.to, gen)]
    IN  IF GetToTag(req).panic THEN EnvPanic(req)
        ELSE EnvVal([tagged EXCEPT !.msg.status = status, !.msg.phrase = phrase,
                                   !.source = res.destination, !.destination = res.source])

NewResponseFromRequest(req, status, phrase, gen) ==
    IF build = "tagging" THEN NewResponseFromRequest_tagging(req, status, phrase, gen)
    ELSE NewResponseFromRequest_response(req, status, phrase)

-----------------------------------------------------------------------------
(* Addresses, sockets and datagrams. *)

Put(f, k, v) == [x \in DOMAIN f \cup {k} |-> IF x = k THEN v ELSE f[x]]
EmptyMap == [x \in {} |-> 0]

\* the sockets a test can bind, and the remote peers
Socks == {1, 2}
LocalAddr(s) == IF s = 1 THEN "127.0.0.1:5060" ELSE "127.0.0.1:5061"
Peers == {"10.0.0.1:5060", "10.0.0.2:5070"}
BadAddr == "nohost"

\* net.ResolveUDPAddr at its call sites: whether the address resolves
Resolvable(addr) == addr \in Peers \cup {LocalAddr(s) : s \in Socks}
SockOf(addr) == CHOOSE s \in Socks : LocalAddr(s) = addr

\* ParseAddr: SplitHostPort, then Atoi of the port
ParseAddr(addr) ==
    CASE addr = "127.0.0.1:5060" -> [err |-> FALSE, port |-> 5060]
      [] addr = "127.0.0.1:5061" -> [err |-> FALSE, port |-> 5061]
      [] addr = "10.0.0.1:5060" -> [err |-> FALSE, port |-> 5060]
      [] addr = "10.0.0.2:5070" -> [err |-> FALSE, port |-> 5070]
      [] addr = "0.0.0.0:5060" -> [err |-> FALSE, port |-> 5060]
      [] addr = "0.0.0.0:5061" -> [err |-> FALSE, port |-> 5061]
      [] OTHER -> [err |-> TRUE, port |-> 0]

\* TCP listeners a caller can hand to ServeTCP
TcpListeners == {"0.0.0.0:5060", "0.0.0.0:5061"}

\* strings.ToLower / util.ASCIIToLower on the names in use
Lower(s) ==
    CASE s = "UDP" -> "udp"
      [] s = "Udp" -> "udp"
      [] s = "TCP" -> "tcp"
      [] s = "TLS" -> "tls"
      [] s = "WS" -> "ws"
      [] OTHER -> s

NetworkToLower(network) ==
    CASE network = "UDP" -> "udp"
      [] network = "TCP" -> "tcp"
      [] network = "TLS" -> "tls"
      [] network = "WS" -> "ws"
      [] OTHER -> Lower(network)

TransportUDP == "UDP"
ErrNetworkNotSupported == "protocol not supported"
ErrUDPMTUCongestion == "size of packet larger than MTU"
UDPMTUSize == 1500

\* bytes of a raw datagram
Bytes == {"NUL", "CR", "LF", "A"}

RECURSIVE TrimLeft(_, _)
TrimLeft(data, cutset) ==
    IF data # <<>> /\ Head(data) \in cutset THEN TrimLeft(Tail(data), cutset) ELSE data

RECURSIVE TrimRight(_, _)
TrimRight(data, cutset) ==
    IF data # <<>> /\ data[Len(data)] \in cutset
    THEN TrimRight(SubSeq(data, 1, Len(data) - 1), cutset)
    ELSE data

\* bytes.Trim: the cutset's bytes cut from both ends
Trim(data, cutset) == TrimRight(TrimLeft(data, cutset), cutset)

NoMsg ==
    [status |-> 0, phrase |-> "", method |-> "", cseqMethod |-> "", via |-> "",
     to |-> NilAddr, from |-> NilAddr, callID |-> "", hdr |-> 0, payload |-> 0]

\* a datagram: raw bytes the codec rejects, or the text of a SIP message (which
\* has letters in it, is longer than 4 bytes, and which the codec parses to msg)
RawDatagram(b) == [kind |-> "raw", bytes |-> b, msg |-> NoMsg]
SipDatagram(m) == [kind |-> "sip", bytes |-> <<>>, msg |-> m]

DataLen(d) == IF d.kind = "raw" THEN Len(d.bytes) ELSE SerializedLen(d.msg)
TrimsToEmpty(d, cutset) == d.kind = "raw" /\ Trim(d.bytes, cutset) = <<>>

\* sip.ParseMsg: the codec's answer for the datagram
SipParseMsg(d) == IF d.kind = "sip" THEN [err |-> FALSE, msg |-> d.msg]
                  ELSE [err |-> TRUE, msg |-> NoMsg]

NoEnv == [msg |-> NoMsg, transport |-> "", source |-> "", destination |-> "",
          respond |-> "nil"]

\* Parser.ParseMsg: the codec, then the mandatory Via
ParserParseMsg(d) ==
    IF SipParseMsg(d).err THEN [err |-> TRUE, env |-> NoEnv]
    ELSE IF SipParseMsg(d).msg.via = "" THEN [err |-> TRUE, env |-> NoEnv]
    ELSE [err |-> FALSE,
          env |-> [msg |-> SipParseMsg(d).msg, transport |-> SipParseMsg(d).msg.via,
                   source |-> "", destination |-> "", respond |-> "nil"]]

-----------------------------------------------------------------------------
(* The write path: Layer.WriteMsg down to the socket. *)

\* what the socket's WriteTo can answer for one send call
\* what the socket's WriteTo can answer for one send call: all bytes written,
\* an error, no byte written, fewer bytes written than given
SendResults == {"ok", "err", "zero", "short"}

NoWrite == [entered |-> FALSE, conn |-> 0, env |-> NoEnv, size |-> 0, err |-> "",
            panic |-> FALSE, sends |-> 0, result |-> ""]

\* mutant: a short write is followed by a second send of the rest
AfterSend_RetryShort(w, sendres) ==
    CASE sendres = "err" -> [w EXCEPT !.sends = 1, !.result = sendres, !.err = "udp conn err"]
      [] sendres = "zero" -> [w EXCEPT !.sends = 1, !.result = sendres, !.err = "wrote 0 bytes"]
      [] sendres = "short" -> [w EXCEPT !.sends = 2, !.result = sendres]
      [] OTHER -> [w EXCEPT !.sends = 1, !.result = sendres]

\* the rest of UDPConnection.WriteMsg after the one WriteTo call
AfterSend(w, sendres) ==
    CASE sendres = "err" -> [w EXCEPT !.sends = 1, !.result = sendres, !.err = "udp conn err"]
      [] sendres = "zero" -> [w EXCEPT !.sends = 1, !.result = sendres, !.err = "wrote 0 bytes"]
      [] sendres = "short" ->
            [w EXCEPT !.sends = 1, !.result = sendres, !.err = "fail to write full message"]
      [] OTHER -> [w EXCEPT !.sends = 1, !.result = sendres]

\* mutant: the size is compared with the whole MTU, without the 200 bytes kept back
UDPConnectionWriteMsg_NoSlack(c, msg, sendres) ==
    LET w == [NoWrite EXCEPT !.entered = TRUE, !.conn = c, !.env = msg,
                             !.size = SerializedLen(msg.msg)]
    IN  IF SerializedLen(msg.msg) > UDPMTUSize
        THEN [w EXCEPT !.err = ErrUDPMTUCongestion]
        ELSE IF ~Resolvable(msg.destination)
        THEN [w EXCEPT !.err = "resolve udp addr"]
        ELSE IF c = 0
        THEN [w EXCEPT !.panic = TRUE]
        ELSE AfterSend(w, sendres)

\* UDPConnection.WriteMsg on connection c (0: the nil *UDPConnection)
UDPConnectionWriteMsg(c, msg, sendres) ==
    LET w == [NoWrite EXCEPT !.entered = TRUE, !.conn = c, !.env = msg,
                             !.size = SerializedLen(msg.msg)]
    IN  IF SerializedLen(msg.msg) > UDPMTUSize - 200
        THEN [w EXCEPT !.err = ErrUDPMTUCongestion]
        ELSE IF ~Resolvable(msg.destination)
        THEN [w EXCEPT !.err = "resolve udp addr"]
        ELSE IF c = 0
        THEN [w EXCEPT !.panic = TRUE]
        ELSE AfterSend(w, sendres)

\* UDPTransport.GetConnection: t.conn as a Connection; the interface value
\* holds the *UDPConnection type also when the pointer is nil, so it is
\* never the nil interface
UDPTransportGetConnection(addr) == [c |-> udpConn, nilInterface |-> FALSE, err |-> ""]

\* Layer.transports
Transports == {"udp"}

\* Layer.getConnection
LayerGetConnection(network, addr) ==
    IF network \notin Transports
    THEN [c |-> 0, err |-> "transport is not supported"]
    ELSE IF UDPTransportGetConnection(addr).err = "" /\ UDPTransportGetConnection(addr).nilInterface
    THEN [c |-> 0, err |-> "connection does not exist"]
    ELSE [c |-> UDPTransportGetConnection(addr).c, err |-> UDPTransportGetConnection(addr).err]

\* Layer.WriteMsg / WriteMsgTo / GetConnection
LayerWriteMsg(msg, sendres) ==
    LET got == LayerGetConnection(NetworkToLower(msg.transport), msg.destination)
    IN  IF got.err # "" THEN [NoWrite EXCEPT !.env = msg, !.err = got.err]
        ELSE UDPConnectionWriteMsg(got.c, msg, sendres)

\* Server.WriteResponse
WriteResponse(msg, sendres) == LayerWriteMsg(msg, sendres)

-----------------------------------------------------------------------------
(* The dispatch pipeline: Server.handleRequest. *)

\* util.GenerateTag: the k-th token generated while one datagram is handled
GenTags == <<"g1", "g2", "g3", "g4">>
GenerateTag(k) == GenTags[IF k + 1 <= Len(GenTags) THEN k + 1 ELSE Len(GenTags)]

\* Server.defaultRequestMiddleware: a To-tag for a request without one
DefaultRequestMiddleware(req, gen) ==
    IF ~req.msg.to.present THEN EnvPanic(req)
    ELSE IF ParamGet(req.msg.to.param, "tag") # 0 THEN EnvVal(req)
    ELSE IF req.msg.to.param = <<>>
    THEN EnvVal([req EXCEPT !.msg.to.param = <<[name |-> "tag", value |-> gen]>>])
    ELSE EnvVal([req EXCEPT !.msg.to.param =
                    <<req.msg.to.param[1], [name |-> "tag", value |-> gen]>>])

\* the state of one datagram's handling: the message as the handlers see it,
\* the writes made, the handlers invoked, the calls of handleRequest and, for
\* each call, its events in order; the tags generated, handleRequest's local
\* final, how it ended
Run(env) == [req |-> env, writes |-> <<>>, invoked |-> <<>>, calls |-> 0, runs |-> <<>>,
             gens |-> 0, final |-> FALSE, st |-> "ok"]

\* an event of a call of handleRequest: a request middleware called ("mid"),
\* the handler looked up ("lookup") and called ("handler"), its return
\* ("returned", flag: it returned nil), a response middleware called
\* ("respmid") and its return ("respret", flag: its result), a call of
\* WriteResponse ("write", flag: it returned nil)
Ev(e, k, name, flag) == [e |-> e, k |-> k, name |-> name, flag |-> flag]
Log(r, ev) == [r EXCEPT !.runs[Len(r.runs)] = Append(@, ev)]

\* the request middlewares a caller registers: "user" and "log" leave the
\* message alone, as the example's handleServeRequest does; "rewrite" sets the
\* request's method to INVITE
UserMiddlewares == {"log", "rewrite"}

\* what a request middleware does to the message
RequestMiddleware(req, mid, gen) ==
    CASE mid = "default" -> DefaultRequestMiddleware(req, gen)
      [] mid = "rewrite" -> EnvVal([req EXCEPT !.msg.method = "INVITE"])
      [] OTHER -> EnvVal(req)

\* one request middleware called, the k-th of the list
ApplyMiddleware(r, mid, k) ==
    IF r.st # "ok" THEN r
    ELSE LET out == RequestMiddleware(r.req, mid, GenerateTag(r.gens))
             r1 == Log(r, Ev("mid", k, mid, FALSE))
         IN  IF out.panic THEN [r1 EXCEPT !.st = "panic"]
             ELSE [r1 EXCEPT !.req = out.env,
                             !.gens = IF mid # "default" \/ out.env = r.req
                                      THEN r.gens ELSE r.gens + 1]

\* mutant: only the first middleware of the list is called
RunMiddlewares_FirstOnly(r, mids, k) ==
    IF mids = <<>> THEN r ELSE ApplyMiddleware(r, Head(mids), k)

\* the loop over Server.requestMiddlewares
RECURSIVE RunMiddlewares(_, _, _)
RunMiddlewares(r, mids, k) ==
    IF mids = <<>> THEN r
    ELSE RunMiddlewares(ApplyMiddleware(r, Head(mids), k), Tail(mids), k + 1)

\* the method a message is dispatched on
DispatchMethod(msg) == IF IsResponse(msg) THEN msg.cseqMethod ELSE msg.method

\* Server.getHandler: the registered handler, or the default one
GetHandler(method) ==
    IF method \in DOMAIN requestHandlers THEN requestHandlers[method] ELSE "unhandled"

\* a write made while a datagram is handled
RunWrite(r, msg, sendres) ==
    LET w == WriteResponse(msg, sendres)
        r1 == IF r.runs = <<>> THEN r ELSE Log(r, Ev("write", 0, "", w.err = "" /\ ~w.panic))
    IN  [r1 EXCEPT !.writes = Append(r.writes, w),
                   !.st = IF w.panic THEN "panic" ELSE r.st]

\* Server.defaultUnhandledHandler: the 405 reply, written here; returns nil
DefaultUnhandledHandler(r, sendres) ==
    LET res == NewResponseFromRequest(r.req, 405, "Method Not Allowed", GenerateTag(r.gens))
    IN  IF res.panic THEN [r EXCEPT !.st = "panic"]
        ELSE RunWrite(r, [res.env EXCEPT !.msg.payload = 0], sendres)

\* what a handler returns: nil, or a reply
NilRes == [isNil |-> TRUE, env |-> NoEnv]
Reply(env) == [isNil |-> FALSE, env |-> env]

\* mutant: a nil response is not the end of the chain
DefaultResponseMiddleware_NilNotFinal(r, res, sendres) ==
    LET w == IF res.isNil THEN r ELSE RunWrite(r, res.env, sendres)
    IN  IF w.st # "ok" \/ res.isNil THEN w ELSE [w EXCEPT !.final = TRUE]

\* mutant: the response is written twice
DefaultResponseMiddleware_WritesTwice(r, res, sendres) ==
    LET w == IF res.isNil THEN r
             ELSE RunWrite(RunWrite(r, res.env, sendres), res.env, sendres)
    IN  IF w.st # "ok" THEN w ELSE [w EXCEPT !.final = TRUE]

\* Server.defaultResponseMiddleware: writes a non-nil response; returns true
DefaultResponseMiddleware(r, res, sendres) ==
    LET w == IF res.isNil THEN r ELSE RunWrite(r, res.env, sendres)
    IN  IF w.st # "ok" THEN w ELSE [w EXCEPT !.final = TRUE]

\* Server.responseMiddlewares: NewServer's list, which nothing changes
ResponseMiddlewares == <<"default">>

\* the loop over Server.responseMiddlewares: stops once final is set
RECURSIVE RunResponseMiddlewares(_, _, _, _, _)
RunResponseMiddlewares(r, mids, k, res, sendres) ==
    IF mids = <<>> \/ r.st # "ok" \/ r.final THEN r
    ELSE LET r1 == DefaultResponseMiddleware(Log(r, Ev("respmid", k, Head(mids), FALSE)),
                                             res, sendres)
             r2 == IF r1.st = "ok" THEN Log(r1, Ev("respret", k, Head(mids), r1.final)) ELSE r1
         IN  RunResponseMiddlewares(r2, Tail(mids), k + 1, res, sendres)

\* the handlers a caller registers: "reply" answers 200 OK as the example's
\* handleInvite does, "nil" returns nothing as its handleRegister does,
\* "block" never returns
UserHandlers == {"reply", "nil", "block"}

UserHandler(r, h) ==
    LET res == NewResponseFromRequest(r.req, 200, "OK", GenerateTag(r.gens))
    IN  CASE h = "block" -> [r |-> [r EXCEPT !.st = "blocked"], res |-> NilRes]
          [] h = "nil" -> [r |-> r, res |-> NilRes]
          [] OTHER ->
               IF res.panic THEN [r |-> [r EXCEPT !.st = "panic"], res |-> NilRes]
               ELSE [r |-> r, res |-> Reply([res.env EXCEPT !.msg.payload = 0])]

\* handler(req) in handleRequest
CallHandler(r, h, sendres) ==
    IF h = "unhandled" THEN [r |-> DefaultUnhandledHandler(r, sendres), res |-> NilRes]
    ELSE UserHandler(r, h)

\* Server.handleRequest: the request middlewares, the handler, the response
\* middlewares
HandleRequest(r, sendres) ==
    LET r0 == [r EXCEPT !.calls = r.calls + 1, !.runs = Append(r.runs, <<>>),
                        !.final = FALSE]
        r1 == RunMiddlewares(r0, requestMiddlewares, 1)
        h == GetHandler(DispatchMethod(r1.req.msg))
        r2 == Log(Log([r1 EXCEPT !.invoked = Append(r1.invoked, h)],
                      Ev("lookup", 0, DispatchMethod(r1.req.msg), FALSE)),
                  Ev("handler", 0, h, FALSE))
        out == CallHandler(r2, h, sendres)
    IN  IF r1.st # "ok" THEN r1
        ELSE IF out.r.st # "ok" THEN out.r
        ELSE RunResponseMiddlewares(Log(out.r, Ev("returned", 0, h, out.res.isNil)),
                                    ResponseMiddlewares, 1, out.res, sendres)

\* Layer.handleMessage: every handler of the list, one after the other, each
\* called in the caller's goroutine
RECURSIVE LayerHandleMessage(_, _, _)
LayerHandleMessage(r, hs, sendres) ==
    IF hs = <<>> \/ r.st # "ok" THEN r
    ELSE LayerHandleMessage(HandleRequest(r, sendres), Tail(hs), sendres)

-----------------------------------------------------------------------------
(* The receive loop: UDPTransport.readConnection and parseAndHandle. *)

Dropped(outcome, codec) ==
    [outcome |-> outcome, codec |-> codec, hook |-> FALSE, env |-> NoEnv, run |-> Run(NoEnv)]

\* mutant: the Via's transport is not compared
ViaAccepted_AnyTransport(msg) == msg.via # ""

\* the Via checks of parseAndHandle: the header is there and declares UDP
ViaAccepted(msg) == msg.via # "" /\ msg.via = "UDP"

\* mutant: the length is not looked at
IsKeepAlive_AnyLength(d) == TrimsToEmpty(d, {"CR", "LF"})

\* the keep-alive test of parseAndHandle: at most 4 bytes, all of them CR or LF
IsKeepAlive(d) == DataLen(d) <= 4 /\ TrimsToEmpty(d, {"CR", "LF"})

\* mutant: the envelope goes to the hook as the parser made it
ParseAndHandle_NoStamp(d, src, sendres) ==
    IF IsKeepAlive(d) THEN Dropped("keepalive", FALSE)
    ELSE IF ParserParseMsg(d).err THEN Dropped("parse error", TRUE)
    ELSE IF ~ViaAccepted(ParserParseMsg(d).env.msg) THEN Dropped("via mismatch", TRUE)
    ELSE LET env == ParserParseMsg(d).env
         IN  [outcome |-> "dispatched", codec |-> TRUE, hook |-> TRUE, env |-> env,
              run |-> LayerHandleMessage(Run(env), handlers, sendres)]

\* UDPTransport.parseAndHandle with Layer.handleMessage as the handler
ParseAndHandle(d, src, sendres) ==
    IF IsKeepAlive(d) THEN Dropped("keepalive", FALSE)
    ELSE IF ParserParseMsg(d).err THEN Dropped("parse error", TRUE)
    ELSE IF ~ViaAccepted(ParserParseMsg(d).env.msg) THEN Dropped("via mismatch", TRUE)
    ELSE LET env == [ParserParseMsg(d).env EXCEPT !.transport = "UDP", !.source = src]
         IN  [outcome |-> "dispatched", codec |-> TRUE, hook |-> TRUE, env |-> env,
              run |-> LayerHandleMessage(Run(env), handlers, sendres)]

\* one turn of readConnection's loop on a datagram that was read without error
ReadIteration(d, src, sendres) ==
    IF DataLen(d) = 0 \/ TrimsToEmpty(d, {"NUL"}) THEN Dropped("noise", FALSE)
    ELSE ParseAndHandle(d, src, sendres)

\* mutant: a datagram that was dropped ends the loop
LoopAfter_StopOnDrop(it) ==
    IF it.run.st = "blocked" THEN "blocked" ELSE IF ~it.hook THEN "done" ELSE "read"

\* where readConnection's loop is after that turn: back at the read, unless the
\* handler it called has not returned
LoopAfter(it) == IF it.run.st = "blocked" THEN "blocked" ELSE "read"

\* the UDPConnection that UDPTransport.Serve makes for socket s: the packet
\* socket, and no connected socket (0: nil)
UDPConnection(s) == [PacketConn |-> s, Conn |-> 0]

\* UDPConnection.Close: closes the connected socket, when there is one
UDPConnectionClose(c, open) ==
    IF c.Conn = 0 THEN open ELSE [open EXCEPT ![c.Conn] = FALSE]

-----------------------------------------------------------------------------
(* Listening: Layer.ListenAndServe, ServeUDP, ServeTCP, UDPTransport.Serve. *)

\* ConnectionPool.Size and ConnectionPool.Add
PoolSize(p) == Cardinality(DOMAIN p)
PoolAdd(p, addr, c) == Put(p, addr, c)

\* Layer.addListenPort: the port is appended only when the network has no
\* entry yet
AddListenPort(lp, network, port) ==
    IF network \notin DOMAIN lp THEN Put(lp, network, <<port>>) ELSE lp

\* what a listen call leaves behind: its error ("" for nil), whether it
\* returned, and the state it wrote
Listened(err, returned, lp, conn, p, loops, hist) ==
    [err |-> err, returned |-> returned, listenPorts |-> lp, udpConn |-> conn,
     pool |-> p, pc |-> loops, sockOpen |-> sockOpen, served |-> hist]

ListenFailed(err) == Listened(err, TRUE, listenPorts, udpConn, pool, pc, served)

\* UDPTransport.Serve: the connection is the transport's only while the pool
\* is empty; the pool entry; then the receive loop, in the caller's goroutine
UDPTransportServe(s, lp, hist) ==
    Listened("", FALSE, lp, IF PoolSize(pool) = 0 THEN s ELSE 0,
             PoolAdd(pool, LocalAddr(s), s), [pc EXCEPT ![s] = "read"], hist)

\* Layer.ServeUDP
LayerServeUDP(s) ==
    IF ParseAddr(LocalAddr(s)).err THEN ListenFailed("parse addr")
    ELSE UDPTransportServe(s, AddListenPort(listenPorts, "udp", ParseAddr(LocalAddr(s)).port),
                           served \cup {<<"udp", ParseAddr(LocalAddr(s)).port>>})

\* Layer.ServeTCP
LayerServeTCP(l) ==
    IF ParseAddr(l).err THEN ListenFailed("parse addr")
    ELSE Listened("", TRUE, AddListenPort(listenPorts, "tcp", ParseAddr(l).port),
                  udpConn, pool, pc, served \cup {<<"tcp", ParseAddr(l).port>>})

\* net.ListenUDP at its call site: the address is one of this host's and no
\* open socket holds it
CanBind(addr) == \E s \in Socks : LocalAddr(s) = addr /\ ~sockOpen[s]

\* the socket net.ListenUDP returns is open
Bound(out, s) == [out EXCEPT !.sockOpen = [@ EXCEPT ![s] = TRUE]]

\* mutant: the "tcp" case records the port as ServeTCP does
LayerListenAndServe_TcpServes(network, addr) ==
    CASE Lower(network) = "udp" ->
            IF ~Resolvable(addr) THEN ListenFailed("fail to resolve address")
            ELSE IF ~CanBind(addr) THEN ListenFailed("listen udp error")
            ELSE Bound(LayerServeUDP(SockOf(addr)), SockOf(addr))
      [] Lower(network) = "tcp" -> LayerServeTCP(addr)
      [] OTHER -> ListenFailed(ErrNetworkNotSupported)

\* Layer.ListenAndServe
LayerListenAndServe(network, addr) ==
    CASE Lower(network) = "udp" ->
            IF ~Resolvable(addr) THEN ListenFailed("fail to resolve address")
            ELSE IF ~CanBind(addr) THEN ListenFailed("listen udp error")
            ELSE Bound(LayerServeUDP(SockOf(addr)), SockOf(addr))
      [] Lower(network) = "tcp" -> ListenFailed(ErrNetworkNotSupported)
      [] OTHER -> ListenFailed(ErrNetworkNotSupported)

-----------------------------------------------------------------------------
(* The inputs of the server specification. *)

Request(method, via, to, hdr) ==
    [status |-> 0, phrase |-> "", method |-> method, cseqMethod |-> method,
     via |-> via, to |-> to, from |-> Addr(<<TagF1>>), callID |-> "abc",
     hdr |-> hdr, payload |-> 120]

Response(status, cseqMethod, hdr) ==
    [status |-> status, phrase |-> "OK", method |-> "", cseqMethod |-> cseqMethod,
     via |-> "UDP", to |-> Addr(<<TagT1>>), from |-> Addr(<<TagF1>>), callID |-> "abc",
     hdr |-> hdr, payload |-> 120]

\* the datagrams the network delivers in the server specification
NetDatagrams ==
    {SipDatagram(Request(m, "UDP", to, hdr)) :
        m \in {"INVITE", "FOOBAR"}, to \in {Addr(<<>>), Addr(<<TagT1>>), Addr(<<ParamLr>>)},
        hdr \in {400, 1301}}
    \cup {SipDatagram(Response(200, m, 400)) : m \in {"INVITE", "FOOBAR"}}
    \cup {SipDatagram(Request("FOOBAR", v, Addr(<<>>), 400)) : v \in {"TCP", ""}}
    \cup {RawDatagram(b) : b \in {<<>>, <<"CR", "LF">>, <<"A">>}}

\* the networks and addresses a caller passes to ListenAndServe
Networks == {"udp", "UDP", "tcp", "ws"}
ListenAddrs == {LocalAddr(s) : s \in Socks} \cup {BadAddr}

\* the envelopes the application writes on its own
AppEnvelopes ==
    {[msg |-> Response(200, "INVITE", hdr), transport |-> tr, source |-> "",
      destination |-> dst, respond |-> "nil"] :
        hdr \in {1180, 1181}, tr \in {"UDP", "udp", "TCP"}, dst \in {"10.0.0.1:5060", BadAddr}}

-----------------------------------------------------------------------------
(* The server: state after NewServer, and one action per operation. *)

Init ==
    /\ build \in {"response", "tagging"}
    /\ requestHandlers = EmptyMap
    /\ requestMiddlewares = <<"default">>
    /\ handlers = <<>>
    /\ listenPorts = EmptyMap
    /\ udpConn = 0
    /\ pool = EmptyMap
    /\ pc = [s \in Socks |-> "unbound"]
    /\ crashed = FALSE
    /\ sockOpen = [s \in Socks |-> FALSE]
    /\ served = {}
    /\ dropped = [s \in Socks |-> FALSE]
    /\ last = [op |-> "none"]

Serving == \E s \in Socks : pc[s] # "unbound"

\* the program can take a step: it has not crashed, and the report of the
\* step before has been read
Ready == ~crashed /\ last.op = "none"

\* Server.OnInvite, before serving begins
OnInvite(h) ==
    /\ Ready /\ ~Serving
    /\ requestHandlers' = Put(requestHandlers, "INVITE", h)
    /\ last' = [op |-> "OnInvite"]
    /\ UNCHANGED <<build, requestMiddlewares, handlers, listenPorts, udpConn, pool, pc,
                   crashed, sockOpen, served, dropped>>

\* Server.ReplaceDefaultRequestMiddlware with a middleware that leaves the
\* message alone, before serving begins
ReplaceDefaultRequestMiddlware ==
    /\ Ready /\ ~Serving
    /\ requestMiddlewares' = [requestMiddlewares EXCEPT ![1] = "user"]
    /\ last' = [op |-> "ReplaceDefaultRequestMiddlware"]
    /\ UNCHANGED <<build, requestHandlers, handlers, listenPorts, udpConn, pool, pc,
                   crashed, sockOpen, served, dropped>>

\* Server.AddRequestMiddleware, before serving begins
AddRequestMiddleware(f) ==
    /\ Ready /\ ~Serving
    /\ Len(requestMiddlewares) < MaxMiddlewares
    /\ requestMiddlewares' = Append(requestMiddlewares, f)
    /\ last' = [op |-> "AddRequestMiddleware"]
    /\ UNCHANGED <<build, requestHandlers, handlers, listenPorts, udpConn, pool, pc,
                   crashed, sockOpen, served, dropped>>

\* the state a listen call writes, after Layer.AppendHandlers
Listen(op, network, addr, out) ==
    /\ handlers' = Append(handlers, "handleRequest")
    /\ listenPorts' = out.listenPorts
    /\ udpConn' = out.udpConn
    /\ pool' = out.pool
    /\ pc' = out.pc
    /\ sockOpen' = out.sockOpen
    /\ served' = out.served
    /\ last' = [op |-> op, network |-> network, addr |-> addr, err |-> out.err,
                returned |-> out.returned]
    /\ UNCHANGED <<build, requestHandlers, requestMiddlewares, crashed, dropped>>

\* Server.ListenAndServe
ListenAndServe(network, addr) ==
    /\ Ready /\ Len(handlers) < MaxHandlers
    /\ Listen("ListenAndServe", network, addr, LayerListenAndServe(network, addr))

\* Server.ServeUDP on a socket the caller has bound
ServeUDP(s) ==
    /\ Ready /\ Len(handlers) < MaxHandlers
    /\ pc[s] = "unbound" /\ ~sockOpen[s]
    /\ Listen("ServeUDP", "udp", LocalAddr(s), Bound(LayerServeUDP(s), s))

\* Server.ServeTCP on a listener of the caller's
ServeTCP(l) ==
    /\ Ready /\ Len(handlers) < MaxHandlers
    /\ Listen("ServeTCP", "tcp", l, LayerServeTCP(l))

\* the receive loop of socket s reads datagram d, sent by src, and handles it
Recv(s, d, src, sendres) ==
    /\ Ready /\ pc[s] = "read"
    /\ \E it \in {ReadIteration(d, src, sendres)} :
           /\ pc' = [pc EXCEPT ![s] = LoopAfter(it)]
           /\ crashed' = (it.run.st = "panic")
           /\ dropped' = [dropped EXCEPT ![s] = ~it.hook]
           /\ last' = [op |-> "Recv", sock |-> s, dgram |-> d, src |-> src,
                       afterDrop |-> dropped[s],
                       outcome |-> it.outcome, codec |-> it.codec, hook |-> it.hook,
                       env |-> it.env, calls |-> it.run.calls, invoked |-> it.run.invoked,
                       runs |-> it.run.runs, req |-> it.run.req,
                       writes |-> it.run.writes, st |-> it.run.st]
    /\ UNCHANGED <<build, requestHandlers, requestMiddlewares, handlers, listenPorts,
                   udpConn, pool, sockOpen, served>>

\* a read on socket s returns an error: readConnection returns, and its
\* deferred conn.Close() runs; the pool and the transport's connection are not
\* touched
ReadError(s) ==
    /\ Ready /\ pc[s] = "read"
    /\ pc' = [pc EXCEPT ![s] = "done"]
    /\ sockOpen' = UDPConnectionClose(UDPConnection(s), sockOpen)
    /\ last' = [op |-> "ReadError", sock |-> s]
    /\ UNCHANGED <<build, requestHandlers, requestMiddlewares, handlers, listenPorts,
                   udpConn, pool, crashed, served, dropped>>

\* UDPTransport.Close: takes and releases the pool's read lock; closes nothing
UDPTransportClose(open) == open

\* Layer.Close: Close of every registered transport, the last error returned
LayerClose(open) == [sockOpen |-> UDPTransportClose(open), err |-> ""]

\* Server.Close
Close ==
    /\ Ready
    /\ sockOpen' = LayerClose(sockOpen).sockOpen
    /\ last' = [op |-> "Close", err |-> LayerClose(sockOpen).err]
    /\ UNCHANGED <<build, requestHandlers, requestMiddlewares, handlers, listenPorts,
                   udpConn, pool, pc, crashed, served, dropped>>

\* the application calls Server.WriteResponse
AppWrite(msg, sendres) ==
    /\ Ready
    /\ LET w == WriteResponse(msg, sendres)
       IN  /\ crashed' = w.panic
           /\ last' = [op |-> "WriteResponse", writes |-> <<w>>]
    /\ UNCHANGED <<build, requestHandlers, requestMiddlewares, handlers, listenPorts,
                   udpConn, pool, pc, sockOpen, served, dropped>>

\* the report of the last step is read and reset (bookkeeping of the history
\* variable, no step of the program)
Observe ==
    /\ last.op # "none"
    /\ last' = [op |-> "none"]
    /\ UNCHANGED <<build, requestHandlers, requestMiddlewares, handlers, listenPorts,
                   udpConn, pool, pc, crashed, sockOpen, served, dropped>>

Next ==
    \/ \E h \in UserHandlers : OnInvite(h)
    \/ ReplaceDefaultRequestMiddlware
    \/ \E n \in Networks, a \in ListenAddrs : ListenAndServe(n, a)
    \/ \E s \in Socks : ServeUDP(s)
    \/ \E l \in TcpListeners : ServeTCP(l)
    \/ \E s \in Socks, d \in NetDatagrams, src \in Peers, r \in SendResults : Recv(s, d, src, r)
    \/ \E s \in Socks : ReadError(s)
    \/ Close
    \/ \E m \in AppEnvelopes, r \in SendResults : AppWrite(m, r)
    \/ Observe

Spec == Init /\ [][Next]_vars

-----------------------------------------------------------------------------
(* The receive path on one socket, over every raw datagram up to MaxRawLen  *)
(* bytes and SIP messages with each kind of Via.                            *)

ViaValues == {"UDP", "TCP", "udp", ""}

RawWire == {RawDatagram(b) : b \in SeqsUpTo(Bytes, MaxRawLen)}
SipWire ==
    {SipDatagram(Request(m, v, Addr(<<>>), 400)) : m \in {"INVITE", "FOOBAR"}, v \in ViaValues}

NextRecv ==
    \/ \E h \in UserHandlers : OnInvite(h)
    \/ ServeUDP(1)
    \/ \E d \in RawWire : Recv(1, d, "10.0.0.1:5060", "ok")
    \/ \E d \in SipWire, src \in Peers, r \in SendResults : Recv(1, d, src, r)
    \/ ReadError(1)
    \/ Observe

SpecRecv == Init /\ [][NextRecv]_vars

-----------------------------------------------------------------------------
(* The dispatch pipeline under every list of request middlewares up to      *)
(* MaxMiddlewares entries, with one socket served and, after a ServeTCP     *)
(* call, a second entry in Layer.handlers.                                  *)

PipeWire ==
    {SipDatagram(Request(m, "UDP", to, 400)) :
        m \in {"INVITE", "FOOBAR"},
        to \in {Addr(<<>>), Addr(<<TagT1>>), Addr(<<ParamLr>>), Addr(<<ParamLr, ParamUser>>),
                Addr(<<ParamLr, TagT1>>)}}
    \cup {SipDatagram(Response(200, "INVITE", 400))}

NextPipe ==
    \/ \E h \in UserHandlers : OnInvite(h)
    \/ ReplaceDefaultRequestMiddlware
    \/ \E f \in UserMiddlewares : AddRequestMiddleware(f)
    \/ ServeTCP("0.0.0.0:5060")
    \/ ServeUDP(1)
    \/ \E d \in PipeWire, r \in {"ok", "err"} : Recv(1, d, "10.0.0.1:5060", r)
    \/ Observe

SpecPipe == Init /\ [][NextPipe]_vars

-----------------------------------------------------------------------------
(* The message helpers applied to envelopes with every To and From          *)
(* parameter list up to MaxParams parameters.                               *)

ToHeaders == {NilAddr} \cup {Addr(ps) : ps \in SeqsUpTo({TagT1, TagEmpty, ParamLr}, MaxParams)}
FromHeaders == {NilAddr} \cup {Addr(ps) : ps \in SeqsUpTo({TagF1, ParamLr}, MaxParams)}

MsgEnvelopes ==
    {[msg |-> [Request("INVITE", "UDP", to, 400) EXCEPT !.from = from, !.callID = cid],
      transport |-> tr, source |-> src, destination |-> dst, respond |-> "nil"] :
        to \in ToHeaders, from \in FromHeaders, cid \in {"", "abc"},
        tr \in {"UDP", "TCP"}, src \in {"10.0.0.1:5060"}, dst \in {"", "127.0.0.1:5060"}}

Replies == {[status |-> 200, phrase |-> "OK"], [status |-> 405, phrase |-> "Method Not Allowed"]}

\* a caller builds a response with NewResponseFromRequest
CallNewResponseFromRequest(req, status, phrase, gen) ==
    /\ Ready
    /\ LET res == NewResponseFromRequest(req, status, phrase, gen)
       IN  /\ crashed' = res.panic
           /\ last' = [op |-> "NewResponseFromRequest", req |-> req, status |-> status,
                       phrase |-> phrase, gen |-> gen, panic |-> res.panic, res |-> res.env]
    /\ UNCHANGED <<build, requestHandlers, requestMiddlewares, handlers, listenPorts,
                   udpConn, pool, pc, sockOpen, served, dropped>>

\* a caller asks a message for its dialog ID
CallMakeDialogIDFromMessage(m) ==
    /\ Ready
    /\ LET res == MakeDialogIDFromMessage(m)
       IN  /\ crashed' = res.panic
           /\ last' = [op |-> "MakeDialogIDFromMessage", req |-> m, panic |-> res.panic,
                       err |-> res.err, id |-> res.id]
    /\ UNCHANGED <<build, requestHandlers, requestMiddlewares, handlers, listenPorts,
                   udpConn, pool, pc, sockOpen, served, dropped>>

NextMsg ==
    \/ \E req \in MsgEnvelopes, r \in Replies, g \in {"g1", "g2"} :
          CallNewResponseFromRequest(req, r.status, r.phrase, g)
    \/ \E m \in MsgEnvelopes : CallMakeDialogIDFromMessage(m)
    \/ Observe

SpecMsg == Init /\ [][NextMsg]_vars

-----------------------------------------------------------------------------
(* The claims. *)

\* what the last step was
IsRecv == last.op = "Recv"
Dispatched == IsRecv /\ last.outcome = "dispatched"
NoEffect == last.calls = 0 /\ last.invoked = <<>> /\ last.writes = <<>>

\* the tag parameter's value of a To header, "" when there is none
ToTagOf(env) ==
    IF ParamGet(env.msg.to.param, "tag") = 0 THEN ""
    ELSE env.msg.to.param[ParamGet(env.msg.to.param, "tag")].value
FromTagOf(env) ==
    IF ParamGet(env.msg.from.param, "tag") = 0 THEN ""
    ELSE env.msg.from.param[ParamGet(env.msg.from.param, "tag")].value

\* C1: an accepted request whose method has no registered handler gets exactly
\* one reply on the wire: 405 Method Not Allowed, no payload, addressed to the
\* address the request came from, and only the default handler runs.  Stated
\* for the plainest setting: one socket served, the default request
\* middleware, a reply within the UDP size budget.
C1_UnhandledGetsOne405 ==
    (/\ Dispatched
     /\ ~IsResponse(last.env.msg)
     /\ last.env.msg.method \notin DOMAIN requestHandlers
     /\ requestMiddlewares = <<"default">>
     /\ Cardinality({s \in Socks : pc[s] # "unbound"}) = 1
     /\ last.env.msg.hdr <= 1300)
    => /\ Len(last.writes) = 1
       /\ last.writes[1].sends = 1
       /\ last.writes[1].env.msg.status = 405
       /\ last.writes[1].env.msg.phrase = "Method Not Allowed"
       /\ last.writes[1].env.msg.payload = 0
       /\ last.writes[1].env.destination = last.src
       /\ \A i \in 1..Len(last.invoked) : last.invoked[i] = "unhandled"

\* some datagram is read from socket s and handled
RecvAny(s) == \E d \in NetDatagrams, src \in Peers, r \in SendResults : Recv(s, d, src, r)

\* C2: the receive loop does not wait for a handler: on a served socket whose
\* reads do not fail, the next datagram is read and dispatched also while the
\* handler of an earlier one has not returned.
C2_HandoffDoesNotWait ==
    \A s \in Socks : (Ready /\ pc[s] \in {"read", "blocked"}) => ENABLED RecvAny(s)

\* C3: an envelope reaches the dispatch hook only with a Via header that
\* declares the socket's protocol; a parsed message without Via, or with a Via
\* of another transport, is dropped: no dispatch, no reply.
C3_ViaChecked ==
    IsRecv =>
        /\ last.hook => (last.env.msg.via # "" /\ last.env.msg.via = TransportUDP)
        /\ (last.dgram.kind = "sip" /\ last.dgram.msg.via # TransportUDP)
              => (~last.hook /\ NoEffect)

C3_Witness ==
    IsRecv /\ last.dgram.kind = "sip" /\ last.dgram.msg.via = "TCP" /\ ~last.hook

\* the bytes of a raw datagram are all CR or LF
OnlyCRLF(d) == d.kind = "raw" /\ \A i \in 1..Len(d.bytes) : d.bytes[i] \in {"CR", "LF"}

\* C4: a datagram of at most 4 bytes, all CR or LF, is absorbed: the codec is
\* not called, no handler runs, nothing is written; and nothing else is taken
\* for a keep-alive.
C4_KeepAlive ==
    IsRecv =>
        /\ (OnlyCRLF(last.dgram) /\ Len(last.dgram.bytes) <= 4)
              => (~last.codec /\ ~last.hook /\ NoEffect
                  /\ (Len(last.dgram.bytes) > 0 => last.outcome = "keepalive"))
        /\ last.outcome = "keepalive"
              => (OnlyCRLF(last.dgram) /\ Len(last.dgram.bytes) <= 4)
        /\ (last.dgram.kind = "raw" /\ ~OnlyCRLF(last.dgram) /\ Trim(last.dgram.bytes, {"NUL"}) # <<>>)
              => last.codec
        /\ (OnlyCRLF(last.dgram) /\ Len(last.dgram.bytes) > 4) => last.codec

C4_Witness ==
    IsRecv /\ last.dgram.bytes = <<"CR", "LF", "CR", "LF">> /\ last.outcome = "keepalive"

\* the UDP writes of the last step
LastWrites ==
    IF last.op \in {"Recv", "WriteResponse"}
    THEN {last.writes[i] : i \in 1..Len(last.writes)} ELSE {}

\* C5: a UDP write of more than 1300 serialized bytes returns the
\* MTU-congestion error without a send call; one of at most 1300 bytes is not
\* rejected for its size.
C5_MTUBudget ==
    \A w \in LastWrites :
        w.entered =>
            /\ w.size > 1300 => (w.err = ErrUDPMTUCongestion /\ w.sends = 0 /\ ~w.panic)
            /\ w.size <= 1300 => w.err # ErrUDPMTUCongestion

C5_Witness ==
    /\ last.op = "WriteResponse"
    /\ last.writes[1].entered
    /\ last.writes[1].size = 1301
    /\ last.writes[1].err = ErrUDPMTUCongestion
    /\ last.writes[1].sends = 0

\* the message has its To and From headers (C6 to C8 are stated for such)
HasToAndFrom(env) == env.msg.to.present /\ env.msg.from.present

\* C6: NewResponseFromRequest returns, for every request envelope, status and
\* phrase, an envelope with source and destination swapped, the given status
\* and phrase, and the request's transport name.
C6_ResponseSwapsAddresses ==
    (last.op = "NewResponseFromRequest" /\ HasToAndFrom(last.req)) =>
        /\ ~last.panic
        /\ last.res.source = last.req.destination
        /\ last.res.destination = last.req.source
        /\ last.res.msg.status = last.status
        /\ last.res.msg.phrase = last.phrase
        /\ last.res.transport = last.req.transport

\* C7: a reply built by NewResponseFromRequest always has a To-tag: a new one
\* when the request has none, the request's own when it has one.
C7_ResponseHasToTag ==
    (last.op = "NewResponseFromRequest" /\ HasToAndFrom(last.req)) =>
        /\ ~last.panic
        /\ ToTagOf(last.res) # ""
        /\ ToTagOf(last.req) # "" => ToTagOf(last.res) = ToTagOf(last.req)
        /\ ToTagOf(last.req) = "" => ToTagOf(last.res) = last.gen

\* C8: MakeDialogIDFromMessage returns callID__toTag__fromTag when all three
\* are there, and an error (no identity, no crash) when one is missing, also
\* when the To or From header has parameters but no tag.
C8_DialogID ==
    (last.op = "MakeDialogIDFromMessage" /\ HasToAndFrom(last.req)) =>
        /\ ~last.panic
        /\ IF last.req.msg.callID # "" /\ ToTagOf(last.req) # "" /\ FromTagOf(last.req) # ""
           THEN last.err = ""
                /\ last.id = <<last.req.msg.callID, "__", ToTagOf(last.req), "__",
                               FromTagOf(last.req)>>
           ELSE last.err # "" /\ last.id = <<>>

\* C9: the port list of each network holds every distinct port served on that
\* network exactly once.
C9_PortsRecordedOnce ==
    \A np \in served :
        /\ np[1] \in DOMAIN listenPorts
        /\ Cardinality({i \in 1..Len(listenPorts[np[1]]) : listenPorts[np[1]][i] = np[2]}) = 1

ListenLeftNothing ==
    /\ last'.err = ErrNetworkNotSupported
    /\ last'.returned
    /\ UNCHANGED <<listenPorts, udpConn, pool, pc, served>>

C11_NoConnectionIsAnError ==
    \A w \in LastWrites :
        (NetworkToLower(w.env.transport) \in Transports /\ udpConn = 0) =>
            /\ w.err = "connection does not exist"
            /\ ~w.entered
            /\ w.sends = 0
            /\ ~w.panic

\* C12: a read error on a served socket ends that socket's receive loop, so
\* that no further datagram is read from it, and closes the socket.
C12_ReadErrorClosesSocket ==
    last.op = "ReadError" =>
        /\ pc[last.sock] = "done"
        /\ ~sockOpen[last.sock]

\* C13: a pool entry exists only while its connection's read loop runs: once
\* the loop of a served socket has ended, the pool has no entry for it and the
\* transport no longer hands the connection out.
C13_PoolEntryOnlyWhileReading ==
    \A s \in Socks :
        /\ LocalAddr(s) \in DOMAIN pool => pc[s] \in {"read", "blocked"}
        /\ pc[s] = "done" => UDPTransportGetConnection(LocalAddr(s)).c # s

\* the calls of handleRequest made for the datagram read last, and the events
\* of the i-th of them
LastRuns == IF IsRecv THEN 1..Len(last.runs) ELSE {}
EventsOf(i, kinds) == SelectSeq(last.runs[i], LAMBDA ev : ev.e \in kinds)
HasEvent(i, kind) == EventsOf(i, {kind}) # <<>>

\* the method the request middlewares leave in a message dispatched as method
MethodAfter(method) ==
    IF \E k \in 1..Len(requestMiddlewares) : requestMiddlewares[k] = "rewrite"
    THEN "INVITE" ELSE method

RespCalled(i, k) == \E j \in 1..Len(last.runs[i]) :
                        last.runs[i][j].e = "respmid" /\ last.runs[i][j].k = k
RespReturned(i, k, r) == \E j \in 1..Len(last.runs[i]) :
                            /\ last.runs[i][j].e = "respret"
                            /\ last.runs[i][j].k = k /\ last.runs[i][j].flag = r

C17_DropsDoNotStopLoop ==
    IsRecv =>
        /\ ~last.hook => (pc[last.sock] = "read" /\ ~crashed /\ NoEffect)
        /\ (last.afterDrop /\ last.dgram.kind = "sip" /\ last.dgram.msg.via = "UDP")
              => (last.hook /\ last.outcome = "dispatched" /\ last.calls >= 1)

C17_Witness ==
    IsRecv /\ last.afterDrop /\ last.hook /\ last.calls = 1 /\ last.st = "ok"

\* C18: every envelope handed to the dispatch hook has as its source the
\* address the datagram was received from and as its transport the receiving
\* transport's name.
C18_StampedWithSender ==
    (IsRecv /\ last.hook) =>
        /\ last.env.source = last.src
        /\ last.env.transport = TransportUDP
        /\ last.env.msg = last.dgram.msg

C18_Witness ==
    IsRecv /\ last.hook /\ last.src = "10.0.0.2:5070" /\ last.env.source = "10.0.0.2:5070"

\* C19: one UDPConnection.WriteMsg makes at most one send call; a send that
\* reports no byte or fewer bytes than the message makes the write return an
\* error, without a second send; and a write that returned an error leaves the
\* sockets, the receive loops and the transport's connection as they were.
C19_OneSendNoRetry ==
    [][\A w \in LastWrites' :
          /\ w.sends <= 1
          /\ w.result \in {"zero", "short"} => (w.sends = 1 /\ w.err # "")
          /\ (w.entered /\ w.err # "") =>
                (/\ ~crashed'
                 /\ UNCHANGED <<sockOpen, pc, udpConn, pool>>)]_vars

C19_Witness ==
    /\ last.op = "WriteResponse"
    /\ last.writes[1].result = "short"
    /\ last.writes[1].err = "fail to write full message"
    /\ last.writes[1].sends = 1
    /\ sockOpen[last.writes[1].conn] /\ pc[last.writes[1].conn] = "read"

\* C20: each accepted datagram is run through the pipeline exactly once:
\* handleRequest is called once for it, whatever listen calls were made before.
C20_DispatchedOnce ==
    (Dispatched /\ last.st = "ok") => (last.calls = 1 /\ Len(last.runs) = 1)

\* some UDP socket is being served: its receive loop runs
BeingServed(s) == pc[s] \in {"read", "blocked"}

\* C21: whenever at least one UDP socket is being served,
\* UDPTransport.GetConnection returns a connection that is bound to a served
\* socket, also after a second socket has been served, and no write of the
\* step before crashed for lack of one.
C21_ConnectionWhileServed ==
    (\E s \in Socks : BeingServed(s)) =>
        /\ \A a \in Peers :
              /\ UDPTransportGetConnection(a).c \in Socks
              /\ BeingServed(UDPTransportGetConnection(a).c)
        /\ \A w \in LastWrites : ~w.panic

\* C22: when Server.Close has returned every served socket is closed, so that
\* its receive loop ends and no datagram arriving later is read and
\* dispatched.
C22_CloseClosesSockets ==
    last.op = "Close" => \A s \in Socks : ~sockOpen[s]

\* the parameters of a list that are not a tag
Untagged(params) == SelectSeq(params, LAMBDA q : q.name # "tag")

\* C23: the default request middleware only adds a tag parameter to the To
\* header: for a request without To-tag the To header has, when the
\* middleware is done, a tag parameter and every parameter it had before,
\* unchanged and in order; a request with a To-tag is left as it was.
C23_DefaultMiddlewareOnlyAddsTag ==
    (Dispatched /\ requestMiddlewares = <<"default">>) =>
        IF ParamGet(last.env.msg.to.param, "tag") # 0
        THEN last.req = last.env
        ELSE /\ ParamGet(last.req.msg.to.param, "tag") # 0
             /\ Len(last.req.msg.to.param) = Len(last.env.msg.to.param) + 1
             /\ Untagged(last.req.msg.to.param) = last.env.msg.to.param
             /\ [last.req EXCEPT !.msg.to = last.env.msg.to] = last.env

\* the errors of Layer.ListenAndServe for a bad configuration
ConfigErrors == {ErrNetworkNotSupported, "fail to resolve address"}

\* C24: a Server.ListenAndServe call that fails with a configuration error
\* (network not supported, address not resolvable) leaves the inbound handler
\* list, the listening ports and the transport's connection, pool and sockets
\* as they were before the call.
C24_FailedListenChangesNothing ==
    [][(last'.op = "ListenAndServe" /\ last'.err \in ConfigErrors)
          => UNCHANGED <<handlers, listenPorts, udpConn, pool, pc, sockOpen>>]_vars

====
